---- MODULE Spec2Model ----
(***************************************************************************)
(* Model of the log-retrieval core of mcp-server-kubernetes                *)
(* (src/tools/kubectl-logs.ts): kubectlLogs, getLabelSelectorLogs,         *)
(* formatLogOutput and handleCommandError.                                 *)
(*                                                                         *)
(* A JavaScript string is a sequence of atoms.  An atom is either a        *)
(* separator character (" ", ",", "[", "]"), one of the literal phrases    *)
(* the code searches for or emits, or a run of other characters (a name).  *)
(* String concatenation and template literals are \o.                      *)
(***************************************************************************)
EXTENDS Integers, Sequences, FiniteSets, TLC

VARIABLES
  pc,          \* position of the request inside kubectlLogs
  req,         \* the input object of the running request
  sel,         \* labelSelector argument of the running getLabelSelectorLogs
  caller,      \* who called getLabelSelectorLogs: "top" or "cron"
  jobs,        \* kubectlLogs: const jobs (cronjob branch)
  jobIdx,      \* position of the for..of loop over jobs
  allJobLogs,  \* kubectlLogs: const allJobLogs
  pods,        \* getLabelSelectorLogs: const pods
  podIdx,      \* position of the for..of loop over pods
  logsMap,     \* getLabelSelectorLogs: const logsMap
  pending,     \* value getLabelSelectorLogs resolved with, awaited by the cronjob loop
  calls,       \* external invocations (execFileSync) of the request and their outcomes, in order
  errlog,      \* handleCommandError invocations (its console.error line and result)
  response,    \* what kubectlLogs returned or threw
  cin,         \* input of a stand-alone handleCommandError evaluation
  cout,        \* its result
  prev,        \* the request handled before the running one, its calls and its response
  parked,      \* the activation of kubectlLogs that is not running: not started, suspended or finished
  env,         \* process.env: the tool filter settings read when the server starts
  reply        \* what the server's ListTools or CallTool handler answered

vars == <<pc, req, sel, caller, jobs, jobIdx, allJobLogs, pods, podIdx,
          logsMap, pending, calls, errlog, response, cin, cout, prev, parked,
          env, reply>>

----------------------------------------------------------------------------
(* Bounds *)

\* longest bracketed container list (in atoms) of a classified message
MaxContainerListLen == 3
\* longest bracketed init-container list (in atoms) of a classified message
MaxInitListLen == 1
\* longest raw listing output (in atoms) the pod listing returns
MaxPodListLen == 4
\* longest raw listing output (in atoms) the pod listing of one cronjob job returns
MaxJobPodListLen == 1
\* longest raw listing output (in atoms) the job listing returns
MaxJobListLen == 3
\* most label pairs in the JSON text a deployment read returns
MaxLabels == 2
\* most label pairs a deployment read returns in the replayed runs (SpecReplay)
MaxReplayLabels == 1

----------------------------------------------------------------------------
(* JavaScript strings *)

Whitespace == {" ", "\t", "\n"}

RECURSIVE TrimStart(_)
TrimStart(s) ==
  IF s # <<>> /\ Head(s) \in Whitespace THEN TrimStart(Tail(s)) ELSE s

RECURSIVE TrimEnd(_)
TrimEnd(s) ==
  IF s # <<>> /\ s[Len(s)] \in Whitespace
  THEN TrimEnd(SubSeq(s, 1, Len(s) - 1)) ELSE s

\* String.prototype.trim
Trim(s) == TrimEnd(TrimStart(s))

\* String.prototype.split(sep) for a one-character separator: the pieces
\* between separators, empty pieces included; "" splits into [""].
RECURSIVE SplitFrom(_, _, _)
SplitFrom(s, sep, cur) ==
  IF s = <<>> THEN <<cur>>
  ELSE IF Head(s) = sep THEN <<cur>> \o SplitFrom(Tail(s), sep, <<>>)
  ELSE SplitFrom(Tail(s), sep, Append(cur, Head(s)))

Split(s, sep) == SplitFrom(s, sep, <<>>)

\* String.prototype.includes for a phrase that is one atom
Includes(s, phrase) == \E i \in 1..Len(s) : s[i] = phrase

\* Array.prototype.join
RECURSIVE Join(_, _)
Join(parts, sep) ==
  IF parts = <<>> THEN <<>>
  ELSE IF Len(parts) = 1 THEN parts[1]
  ELSE parts[1] \o sep \o Join(Tail(parts), sep)

----------------------------------------------------------------------------
(* JavaScript objects used as maps (Record<string, ...>): a sequence of    *)
(* entries in property-enumeration order.                                  *)

\* atoms that are decimal digits (none is "0")
Digits == {"7", "3"}

DigitVal(d) == IF d = "7" THEN 7 ELSE 3

\* a canonical array index: property keys of this form enumerate first, in
\* ascending numeric order, before all other string keys
IsArrayIndex(k) == k # <<>> /\ Len(k) <= 9 /\ \A i \in 1..Len(k) : k[i] \in Digits

RECURSIVE IndexVal(_)
IndexVal(k) ==
  IF k = <<>> THEN 0 ELSE 10 * IndexVal(SubSeq(k, 1, Len(k) - 1)) + DigitVal(k[Len(k)])

HasKey(o, k) == \E i \in 1..Len(o) : o[i].k = k

\* o[k], undefined when absent
Undefined == [t |-> "undefined"]

ObjGet(o, k) ==
  IF HasKey(o, k) THEN o[CHOOSE i \in 1..Len(o) : o[i].k = k].v ELSE Undefined

\* position at which a new key enters the enumeration order
InsertPos(o, k) ==
  IF IsArrayIndex(k)
  THEN Cardinality({i \in 1..Len(o) :
                      IsArrayIndex(o[i].k) /\ IndexVal(o[i].k) < IndexVal(k)}) + 1
  ELSE Len(o) + 1

\* o[k] = v
ObjSet(o, k, v) ==
  IF HasKey(o, k)
  THEN [i \in 1..Len(o) |-> IF o[i].k = k THEN [k |-> k, v |-> v] ELSE o[i]]
  ELSE LET p == InsertPos(o, k)
       IN SubSeq(o, 1, p - 1) \o <<[k |-> k, v |-> v]>> \o SubSeq(o, p, Len(o))

\* Object.keys
RECURSIVE ObjKeys(_)
ObjKeys(o) == IF o = <<>> THEN <<>> ELSE <<Head(o).k>> \o ObjKeys(Tail(o))

\* JSON.stringify of a map followed by JSON.parse: properties whose value is
\* undefined are not written
RECURSIVE JsonMap(_)
JsonMap(o) ==
  IF o = <<>> THEN <<>>
  ELSE IF Head(o).v = Undefined THEN JsonMap(Tail(o))
  ELSE <<Head(o)>> \o JsonMap(Tail(o))

\* a string value stored in a map
Text(s) == [t |-> "text", s |-> s]

\* a map value stored in a map
MapVal(o) == [t |-> "map", e |-> o]

----------------------------------------------------------------------------
(* handleCommandError *)

\* phrases the classifier looks for
NotFoundMarker == "not found"
ContainerMarker == "a container name must be specified"
ForPod == "for pod "
ChooseOneOf == "choose one of: "
InitContainers == "or one of the init containers: "

\* first position >= i of s holding an atom of set cs, Len(s) + 1 if none
RECURSIVE FirstOf(_, _, _)
FirstOf(s, cs, i) ==
  IF i > Len(s) THEN Len(s) + 1
  ELSE IF s[i] \in cs THEN i
  ELSE FirstOf(s, cs, i + 1)

NoMatch == [matched |-> FALSE, group |-> <<>>]

\* message.match(/for pod ([^,]+)/): leftmost "for pod " followed by at
\* least one character other than a comma; the group is the longest run of
\* such characters
RECURSIVE MatchForPod(_, _)
MatchForPod(s, i) ==
  IF i > Len(s) THEN NoMatch
  ELSE IF s[i] = ForPod /\ i + 1 <= Len(s) /\ s[i + 1] # ","
  THEN [matched |-> TRUE, group |-> SubSeq(s, i + 1, FirstOf(s, {","}, i + 1) - 1)]
  ELSE MatchForPod(s, i + 1)

\* message.match(/<lead>\[([^\]]+)\]/): leftmost <lead> followed by "[", at
\* least one character other than "]", and a closing "]"
RECURSIVE MatchBracket(_, _, _)
MatchBracket(s, lead, i) ==
  IF i > Len(s) THEN NoMatch
  ELSE LET close == FirstOf(s, {"]"}, i + 2)
       IN IF /\ s[i] = lead
             /\ i + 2 <= Len(s)
             /\ s[i + 1] = "["
             /\ close > i + 2
             /\ close <= Len(s)
          THEN [matched |-> TRUE, group |-> SubSeq(s, i + 2, close - 1)]
          ELSE MatchBracket(s, lead, i + 1)

\* variant: the bracketed text is not split
ContainerListNoSplit(m) == IF m.matched THEN <<Trim(m.group)>> ELSE <<>>

\* m[1].split(" ").map((c) => c.trim())
ContainerList(m) ==
  IF m.matched
  THEN LET parts == Split(m.group, " ") IN [i \in 1..Len(parts) |-> Trim(parts[i])]
  ELSE <<>>

\* the suggestion text of the multi-container payload
Suggestion(containers, initContainers) ==
  <<"Please specify a container name using the 'container' parameter. Available containers: ">>
    \o Join(containers, <<",", " ">>)
    \o (IF Len(initContainers) > 0
        THEN <<". Init containers: ">> \o Join(initContainers, <<",", " ">>)
        ELSE <<>>)

\* variant: the container rule is tried first
IsNotFoundUnlessContainer(error) ==
  /\ error.status = 404 \/ Includes(error.message, NotFoundMarker)
  /\ ~Includes(error.message, ContainerMarker)

\* variant: the exit status is not looked at
IsNotFoundMessageOnly(error) == Includes(error.message, NotFoundMarker)

\* error.status === 404 || error.message.includes("not found")
IsNotFound(error) == error.status = 404 \/ Includes(error.message, NotFoundMarker)

\* variant: the general payload carries the message trimmed
handleCommandErrorTrimmed(error, resourceDescription) ==
  IF IsNotFound(error)
  THEN [isError |-> TRUE,
        body |-> [error |-> <<"Resource ">> \o resourceDescription \o <<" ", NotFoundMarker>>,
                  status |-> "not_found"]]
  ELSE IF Includes(error.message, ContainerMarker)
  THEN LET podNameMatch == MatchForPod(error.message, 1)
           containersMatch == MatchBracket(error.message, ChooseOneOf, 1)
           initContainersMatch == MatchBracket(error.message, InitContainers, 1)
           podName == IF podNameMatch.matched THEN podNameMatch.group ELSE <<"unknown">>
           containers == ContainerList(containersMatch)
           initContainers == ContainerList(initContainersMatch)
       IN [isError |-> TRUE,
           body |-> [error |-> <<"Multi-container pod requires container specification">>,
                     status |-> "multi_container_error",
                     pod_name |-> podName,
                     available_containers |-> containers,
                     init_containers |-> initContainers,
                     suggestion |-> Suggestion(containers, initContainers)]]
  ELSE [isError |-> TRUE,
        body |-> [error |-> <<"Failed to get logs for ">> \o resourceDescription
                              \o <<": ">> \o Trim(error.message),
                  status |-> "general_error",
                  original_error |-> Trim(error.message)]]

\* handleCommandError(error, resourceDescription): the returned object, with
\* body the object written into content[0].text
handleCommandError(error, resourceDescription) ==
  IF IsNotFound(error)
  THEN [isError |-> TRUE,
        body |-> [error |-> <<"Resource ">> \o resourceDescription \o <<" ", NotFoundMarker>>,
                  status |-> "not_found"]]
  ELSE IF Includes(error.message, ContainerMarker)
  THEN LET podNameMatch == MatchForPod(error.message, 1)
           containersMatch == MatchBracket(error.message, ChooseOneOf, 1)
           initContainersMatch == MatchBracket(error.message, InitContainers, 1)
           podName == IF podNameMatch.matched THEN podNameMatch.group ELSE <<"unknown">>
           containers == ContainerList(containersMatch)
           initContainers == ContainerList(initContainersMatch)
       IN [isError |-> TRUE,
           body |-> [error |-> <<"Multi-container pod requires container specification">>,
                     status |-> "multi_container_error",
                     pod_name |-> podName,
                     available_containers |-> containers,
                     init_containers |-> initContainers,
                     suggestion |-> Suggestion(containers, initContainers)]]
  ELSE [isError |-> TRUE,
        body |-> [error |-> <<"Failed to get logs for ">> \o resourceDescription
                              \o <<": ">> \o error.message,
                  status |-> "general_error",
                  original_error |-> error.message]]

\* the line handleCommandError writes with console.error, and what it returned
ErrLogEntry(error, resourceDescription) ==
  [description |-> resourceDescription,
   error |-> error,
   result |-> handleCommandError(error, resourceDescription)]

----------------------------------------------------------------------------
(* The environment: what execFileSync returns or throws *)

\* error.status of an error that carries no exit status
NoStatus == -1

ExecOk(out) == [ok |-> TRUE, out |-> out]
ExecFail(error) == [ok |-> FALSE, error |-> error]

\* the error of an outcome, for the record of a call
NoError == [status |-> NoStatus, message |-> <<>>]
ErrorOf(outcome) == IF outcome.ok THEN NoError ELSE outcome.error

\* error.message of a failed kubectl logs run
NotFoundMessage ==
  <<"Command failed: kubectl logs", "\n", "Error from server (NotFound): pods ", NotFoundMarker, "\n">>
MultiContainerMessage ==
  <<"Command failed: kubectl logs", "\n", "error: ", ContainerMarker, " ", ForPod, "web-1", ",", " ",
    ChooseOneOf, "[", "app", " ", "sidecar", "]", " ", InitContainers, "[", "init", "]", "\n">>
ConnectionMessage ==
  <<"Command failed: kubectl", "\n", "Unable to connect to the server", "\n">>

\* errors a kubectl run throws (exit status 1)
ExecErrors ==
  { [status |-> 1, message |-> NotFoundMessage],
    [status |-> 1, message |-> MultiContainerMessage],
    [status |-> 1, message |-> ConnectionMessage] }

\* captured standard output of a successful kubectl logs run
LogTexts == { <<"log line", "\n">> }

LogOutcomes == {ExecOk(t) : t \in LogTexts} \cup {ExecFail(e) : e \in ExecErrors}

\* outcomes of the per-pod log fetches of a fan-out
FanoutErrors ==
  { [status |-> 1, message |-> NotFoundMessage],
    [status |-> 1, message |-> MultiContainerMessage] }
FanoutOutcomes == {ExecOk(t) : t \in LogTexts} \cup {ExecFail(e) : e \in FanoutErrors}

\* sequences over alphabet a of length at most n
SeqsUpTo(a, n) == UNION {[1..m -> a] : m \in 0..n}

\* a name atom stands for a whole run of non-blank characters
NoAdjacentNames(s) == \A i \in 1..(Len(s) - 1) : s[i] = " " \/ s[i + 1] = " "

\* raw output of the name-only pod listing
PodNames == {"web-1", "7"}
PodListOutputs ==
  {s \in SeqsUpTo(PodNames \cup {" "}, MaxPodListLen) : NoAdjacentNames(s)}
JobPodListOutputs ==
  {s \in SeqsUpTo(PodNames \cup {" "}, MaxJobPodListLen) : NoAdjacentNames(s)}

\* raw output of the name-only job listing
JobNames == {"job-a", "3"}
JobListOutputs ==
  {s \in SeqsUpTo(JobNames \cup {" "}, MaxJobListLen) : NoAdjacentNames(s)}

PodListOutcomes == {ExecOk(o) : o \in PodListOutputs} \cup {ExecFail(e) : e \in ExecErrors}
JobPodListOutcomes ==
  {ExecOk(o) : o \in JobPodListOutputs} \cup {ExecFail(e) : e \in ExecErrors}
JobListOutcomes == {ExecOk(o) : o \in JobListOutputs} \cup {ExecFail(e) : e \in ExecErrors}

\* output of the deployment's matchLabels read, after trim() and the quote
\* replacement: the text of a JSON object (its members in text order), the
\* text "null", or text JSON.parse rejects
LabelPairs == { <<"app", "x">>, <<"app", "web">>, <<"tier", "web">>, <<"7", "x">> }
SelectorOutputs ==
  {[json |-> "object", members |-> m] : m \in SeqsUpTo(LabelPairs, MaxLabels)}
    \cup {[json |-> "null", members |-> <<>>], [json |-> "invalid", members |-> <<>>]}
SelectorOutcomes == {ExecOk(o) : o \in SelectorOutputs} \cup {ExecFail(e) : e \in ExecErrors}

\* what JSON.parse and Object.entries throw
SyntaxErrorValue == [status |-> NoStatus, message |-> <<"Unexpected token in JSON">>]
TypeErrorValue ==
  [status |-> NoStatus, message |-> <<"Cannot convert undefined or null to object">>]

\* JSON.parse of an object text: members enter the object in text order, a
\* repeated member name overwrites the earlier value
RECURSIVE ParseMembers(_, _)
ParseMembers(members, o) ==
  IF members = <<>> THEN o
  ELSE ParseMembers(Tail(members), ObjSet(o, <<Head(members)[1]>>, <<Head(members)[2]>>))

\* ([key, value]) => `${key}=${value}`
RenderPair(e) == e.k \o <<"=">> \o e.v

\* variant: the pairs are joined by a comma and a blank
RenderSelectorSpaced(selector) ==
  Join([i \in 1..Len(selector) |-> RenderPair(selector[i])], <<",", " ">>)

\* Object.entries(selector).map(...).join(",")
RenderSelector(selector) ==
  Join([i \in 1..Len(selector) |-> RenderPair(selector[i])], <<",">>)

----------------------------------------------------------------------------
(* Requests *)

\* input.name, input.context
ReqName == <<"web">>
ReqContext == <<"ctx">>

ResourceTypeInputs == {"pod", "Pod", "deployment", "job", "cronjob", "service"}

\* String.prototype.toLowerCase on the resource types above
ToLowerCase(rt) == IF rt = "Pod" THEN "pod" ELSE rt

\* input.namespace: "" stands for a missing value
NamespaceInputs == {<<>>, <<"prod">>}

\* input.labelSelector: "" stands for a missing value
LabelSelectorInputs == {<<>>, <<"app=x">>}

\* const resourceType = input.resourceType.toLowerCase()
ResourceType == ToLowerCase(req.resourceType)

\* const namespace = input.namespace || "default"
Namespace == IF req.namespace = <<>> THEN <<"default">> ELSE req.namespace

NoRequest == [resourceType |-> "", name |-> <<>>, namespace |-> <<>>, labelSelector |-> <<>>]
NoResult == [isError |-> FALSE, body |-> [none |-> TRUE]]
NoResponse == [kind |-> "none"]
NoRun == [req |-> NoRequest, calls |-> <<>>, response |-> NoResponse]

\* a variable of process.env: not set, or set to a string
Unset == [set |-> FALSE, s |-> <<>>]
EnvSet(s) == [set |-> TRUE, s |-> s]

\* process.env without any of the tool filter variables
NoFilters ==
  [ALLOWED_TOOLS |-> Unset, ALLOW_ONLY_READONLY_TOOLS |-> Unset,
   ALLOW_ONLY_NON_DESTRUCTIVE_TOOLS |-> Unset]

\* no request has been answered by the server's tool handlers
NoReply == [kind |-> "none"]

\* an activation of kubectlLogs that has not started
NotStarted ==
  [pc |-> "idle", req |-> NoRequest, sel |-> <<>>, caller |-> "top", jobs |-> <<>>,
   jobIdx |-> 0, allJobLogs |-> <<>>, pods |-> <<>>, podIdx |-> 0, logsMap |-> <<>>,
   pending |-> NoResult, calls |-> <<>>, response |-> NoResponse]

\* a value returned by kubectlLogs
Returned(result) == [kind |-> "return", isError |-> result.isError, body |-> result.body]

\* the enum of the input schema
SupportedKinds == {"pod", "deployment", "job", "cronjob"}

\* variant: the outer catch wraps every error, McpError included
ThrownWrapped(code, message) ==
  [kind |-> "throw", code |-> "InternalError",
   message |-> <<"Failed to get logs: ">> \o message]

\* an McpError thrown by kubectlLogs
Thrown(code, message) == [kind |-> "throw", code |-> code, message |-> message]

\* formatLogOutput
formatLogOutput(resourceName, logOutput) ==
  [isError |-> FALSE, body |-> [name |-> resourceName, logs |-> logOutput]]

----------------------------------------------------------------------------
(* kubectlLogs and getLabelSelectorLogs, one action per external call *)

Init ==
  /\ pc = "idle"
  /\ req = NoRequest
  /\ sel = <<>>
  /\ caller = "top"
  /\ jobs = <<>>
  /\ jobIdx = 0
  /\ allJobLogs = <<>>
  /\ pods = <<>>
  /\ podIdx = 0
  /\ logsMap = <<>>
  /\ pending = NoResult
  /\ calls = <<>>
  /\ errlog = <<>>
  /\ response = NoResponse
  /\ cin = [status |-> NoStatus, message |-> <<>>, description |-> <<>>]
  /\ cout = NoResult
  /\ prev = NoRun
  /\ parked = NotStarted
  /\ env = NoFilters
  /\ reply = NoReply

\* variant: no pod matching is reported as a report with an empty logs map
NoPodsResultEmptyMap(labelSelector, namespace) ==
  [isError |-> FALSE,
   body |-> [selector |-> labelSelector, namespace |-> namespace, logs |-> <<>>]]

\* the object getLabelSelectorLogs returns when no pod matches
NoPodsResult(labelSelector, namespace) ==
  [isError |-> FALSE,
   body |-> [message |-> <<"No pods found with label selector \"">> \o labelSelector
                           \o <<"\" in namespace ">> \o namespace]]

\* the object getLabelSelectorLogs returns after the loop over pods
LogsResult(labelSelector, namespace, map) ==
  [isError |-> FALSE,
   body |-> [selector |-> labelSelector, namespace |-> namespace, logs |-> JsonMap(map)]]

\* the object kubectlLogs returns when the cronjob has no job
NoJobsResult(name, namespace) ==
  [isError |-> FALSE,
   body |-> [message |-> <<"No jobs found for cronjob ">> \o name
                           \o <<" in namespace ">> \o namespace]]

\* the object kubectlLogs returns after the loop over jobs
CronResult(name, namespace, jobLogs) ==
  [isError |-> FALSE,
   body |-> [cronjob |-> name, namespace |-> namespace, jobs |-> JsonMap(jobLogs)]]

\* variant: only the length is tested
IsEmptyListingLengthOnly(names) == Len(names) = 0

\* pods.length === 0 || (pods.length === 1 && pods[0] === "")
IsEmptyListing(names) == Len(names) = 0 \/ (Len(names) = 1 /\ names[1] = <<>>)

\* if (!pod) continue: the first position >= i of a non-empty name
RECURSIVE NextPod(_, _)
NextPod(names, i) ==
  IF i > Len(names) THEN i
  ELSE IF names[i] = <<>> THEN NextPod(names, i + 1)
  ELSE i

\* getLabelSelectorLogs resolves with result: kubectlLogs returns it (label
\* selector, job and deployment branches) or the cronjob loop awaits it
ReturnFromSelectorLogs(result) ==
  IF caller = "top"
  THEN /\ pc' = "done"
       /\ response' = Returned(result)
       /\ pending' = pending
  ELSE /\ pc' = "cron_await"
       /\ pending' = result
       /\ response' = response

\* variant: a job's pods are looked up by a label name=<job>
StartJobByName(rt, ns, ls) ==
  /\ pc = "idle"
  /\ req' = [resourceType |-> rt, name |-> ReqName, namespace |-> ns, labelSelector |-> ls]
  /\ LET resourceType == ToLowerCase(rt)
     IN IF resourceType = "pod"
        THEN pc' = "pod_logs" /\ UNCHANGED <<sel, response>>
        ELSE IF resourceType = "deployment"
        THEN pc' = "read_selector" /\ UNCHANGED <<sel, response>>
        ELSE IF resourceType = "job"
        THEN pc' = "list_pods" /\ sel' = <<"name=">> \o ReqName /\ UNCHANGED response
        ELSE IF resourceType = "cronjob"
        THEN pc' = "list_jobs" /\ UNCHANGED <<sel, response>>
        ELSE IF ls # <<>>
        THEN pc' = "list_pods" /\ sel' = ls /\ UNCHANGED response
        ELSE /\ pc' = "done"
             /\ response' = Thrown("InvalidRequest", <<"Unsupported resource type: ", resourceType>>)
             /\ UNCHANGED sel
  /\ caller' = "top"
  /\ UNCHANGED <<env, reply, parked, prev, jobs, jobIdx, allJobLogs, pods, podIdx, logsMap, pending, calls,
                 errlog, cin, cout>>

\* kubectlLogs up to its first external call
Start(rt, ns, ls) ==
  /\ pc = "idle"
  /\ req' = [resourceType |-> rt, name |-> ReqName, namespace |-> ns, labelSelector |-> ls]
  /\ LET resourceType == ToLowerCase(rt)
     IN IF resourceType = "pod"
        THEN pc' = "pod_logs" /\ UNCHANGED <<sel, response>>
        ELSE IF resourceType = "deployment"
        THEN pc' = "read_selector" /\ UNCHANGED <<sel, response>>
        ELSE IF resourceType = "job"
        THEN pc' = "list_pods" /\ sel' = <<"job-name=">> \o ReqName /\ UNCHANGED response
        ELSE IF resourceType = "cronjob"
        THEN pc' = "list_jobs" /\ UNCHANGED <<sel, response>>
        ELSE IF ls # <<>>
        THEN pc' = "list_pods" /\ sel' = ls /\ UNCHANGED response
        ELSE /\ pc' = "done"
             /\ response' = Thrown("InvalidRequest", <<"Unsupported resource type: ", resourceType>>)
             /\ UNCHANGED sel
  /\ caller' = "top"
  /\ UNCHANGED <<env, reply, parked, prev, jobs, jobIdx, allJobLogs, pods, podIdx, logsMap, pending, calls,
                 errlog, cin, cout>>

\* resourceType === "pod": the log fetch and the return
PodLogs(outcome) ==
  /\ pc = "pod_logs"
  /\ calls' = Append(calls, [op |-> "logs", pod |-> req.name, namespace |-> Namespace,
                             outcome |-> outcome])
  /\ IF outcome.ok
     THEN /\ response' = Returned(formatLogOutput(req.name, outcome.out))
          /\ UNCHANGED errlog
     ELSE /\ response' = Returned(handleCommandError(outcome.error, <<"pod ">> \o req.name))
          /\ errlog' = Append(errlog, ErrLogEntry(outcome.error, <<"pod ">> \o req.name))
  /\ pc' = "done"
  /\ UNCHANGED <<env, reply, parked, prev, req, sel, caller, jobs, jobIdx, allJobLogs, pods, podIdx, logsMap,
                 pending, cin, cout>>

\* variant: a null payload is read as a selector without labels
ReadSelectorNullAsEmpty(outcome) ==
  /\ pc = "read_selector"
  /\ calls' = Append(calls, [op |-> "get_deployment", name |-> req.name,
                             namespace |-> Namespace, outcome |-> outcome])
  /\ LET description == <<ResourceType, " ">> \o req.name
         error == IF ~outcome.ok THEN outcome.error
                  ELSE IF outcome.out.json = "invalid" THEN SyntaxErrorValue
                  ELSE TypeErrorValue
     IN IF outcome.ok /\ outcome.out.json # "invalid"
        THEN /\ sel' = RenderSelector(ParseMembers(outcome.out.members, <<>>))
             /\ pc' = "list_pods"
             /\ UNCHANGED <<errlog, response>>
        ELSE /\ response' = Returned(handleCommandError(error, description))
             /\ errlog' = Append(errlog, ErrLogEntry(error, description))
             /\ pc' = "done"
             /\ UNCHANGED sel
  /\ UNCHANGED <<env, reply, parked, prev, req, caller, jobs, jobIdx, allJobLogs, pods, podIdx, logsMap,
                 pending, cin, cout>>

\* resourceType === "deployment": the matchLabels read, JSON.parse and the
\* rendering of the label selector
ReadSelector(outcome) ==
  /\ pc = "read_selector"
  /\ calls' = Append(calls, [op |-> "get_deployment", name |-> req.name,
                             namespace |-> Namespace, outcome |-> outcome])
  /\ LET description == <<ResourceType, " ">> \o req.name
         error == IF ~outcome.ok THEN outcome.error
                  ELSE IF outcome.out.json = "invalid" THEN SyntaxErrorValue
                  ELSE TypeErrorValue
     IN IF outcome.ok /\ outcome.out.json = "object"
        THEN /\ sel' = RenderSelector(ParseMembers(outcome.out.members, <<>>))
             /\ pc' = "list_pods"
             /\ UNCHANGED <<errlog, response>>
        ELSE /\ response' = Returned(handleCommandError(error, description))
             /\ errlog' = Append(errlog, ErrLogEntry(error, description))
             /\ pc' = "done"
             /\ UNCHANGED sel
  /\ UNCHANGED <<env, reply, parked, prev, req, caller, jobs, jobIdx, allJobLogs, pods, podIdx, logsMap,
                 pending, cin, cout>>

\* resourceType === "cronjob": the job listing, the empty check and the
\* first iteration of the loop up to its getLabelSelectorLogs call
ListJobs(outcome) ==
  /\ pc = "list_jobs"
  /\ calls' = Append(calls, [op |-> "get_jobs", selector |-> <<"job-name=">> \o req.name,
                             namespace |-> Namespace, ok |-> outcome.ok,
                             found |-> IF outcome.ok THEN Split(Trim(outcome.out), " ")
                                       ELSE <<>>,
                             error |-> ErrorOf(outcome)])
  /\ IF ~outcome.ok
     THEN /\ response' = Returned(handleCommandError(outcome.error, <<"cronjob ">> \o req.name))
          /\ errlog' = Append(errlog, ErrLogEntry(outcome.error, <<"cronjob ">> \o req.name))
          /\ pc' = "done"
          /\ UNCHANGED <<sel, caller, jobs, jobIdx, allJobLogs>>
     ELSE LET names == Split(Trim(outcome.out), " ")
          IN /\ jobs' = names
             /\ UNCHANGED errlog
             /\ IF IsEmptyListing(names)
                THEN /\ response' = Returned(NoJobsResult(req.name, Namespace))
                     /\ pc' = "done"
                     /\ UNCHANGED <<sel, caller, jobIdx, allJobLogs>>
                ELSE /\ allJobLogs' = <<>>
                     /\ jobIdx' = 1
                     /\ sel' = <<"job-name=">> \o names[1]
                     /\ caller' = "cron"
                     /\ pc' = "list_pods"
                     /\ UNCHANGED response
  /\ UNCHANGED <<env, reply, parked, prev, req, pods, podIdx, logsMap, pending, cin, cout>>

\* variant: the logs object outlives the call (declared outside the function)
ListPodsSharedLogs(outcome) ==
  /\ pc = "list_pods"
  /\ outcome \in (IF caller = "top" THEN PodListOutcomes ELSE JobPodListOutcomes)
  /\ calls' = Append(calls, [op |-> "get_pods", selector |-> sel, namespace |-> Namespace,
                             ok |-> outcome.ok,
                             found |-> IF outcome.ok THEN Split(Trim(outcome.out), " ")
                                       ELSE <<>>,
                             error |-> ErrorOf(outcome)])
  /\ IF ~outcome.ok
     THEN LET description == <<"pods with selector \"">> \o sel \o <<"\"">>
          IN /\ ReturnFromSelectorLogs(handleCommandError(outcome.error, description))
             /\ errlog' = Append(errlog, ErrLogEntry(outcome.error, description))
             /\ UNCHANGED <<pods, podIdx, logsMap>>
     ELSE LET names == Split(Trim(outcome.out), " ")
          IN /\ pods' = names
             /\ logsMap' = logsMap
             /\ UNCHANGED errlog
             /\ IF IsEmptyListing(names)
                THEN /\ ReturnFromSelectorLogs(NoPodsResult(sel, Namespace))
                     /\ UNCHANGED podIdx
                ELSE /\ podIdx' = NextPod(names, 1)
                     /\ IF NextPod(names, 1) > Len(names)
                        THEN ReturnFromSelectorLogs(LogsResult(sel, Namespace, logsMap))
                        ELSE pc' = "fetch_logs" /\ UNCHANGED <<response, pending>>
  /\ UNCHANGED <<env, reply, parked, prev, req, sel, caller, jobs, jobIdx, allJobLogs, cin, cout>>

\* getLabelSelectorLogs: the pod listing, the empty check and the loop up to
\* its first log fetch
ListPods(outcome) ==
  /\ pc = "list_pods"
  /\ outcome \in (IF caller = "top" THEN PodListOutcomes ELSE JobPodListOutcomes)
  /\ calls' = Append(calls, [op |-> "get_pods", selector |-> sel, namespace |-> Namespace,
                             ok |-> outcome.ok,
                             found |-> IF outcome.ok THEN Split(Trim(outcome.out), " ")
                                       ELSE <<>>,
                             error |-> ErrorOf(outcome)])
  /\ IF ~outcome.ok
     THEN LET description == <<"pods with selector \"">> \o sel \o <<"\"">>
          IN /\ ReturnFromSelectorLogs(handleCommandError(outcome.error, description))
             /\ errlog' = Append(errlog, ErrLogEntry(outcome.error, description))
             /\ UNCHANGED <<pods, podIdx, logsMap>>
     ELSE LET names == Split(Trim(outcome.out), " ")
          IN /\ pods' = names
             /\ logsMap' = <<>>
             /\ UNCHANGED errlog
             /\ IF IsEmptyListing(names)
                THEN /\ ReturnFromSelectorLogs(NoPodsResult(sel, Namespace))
                     /\ UNCHANGED podIdx
                ELSE /\ podIdx' = NextPod(names, 1)
                     /\ IF NextPod(names, 1) > Len(names)
                        THEN ReturnFromSelectorLogs(LogsResult(sel, Namespace, <<>>))
                        ELSE pc' = "fetch_logs" /\ UNCHANGED <<response, pending>>
  /\ UNCHANGED <<env, reply, parked, prev, req, sel, caller, jobs, jobIdx, allJobLogs, cin, cout>>

\* variant: the failure message is stored without the "Error: " prefix
FetchEntryNoPrefix(outcome) ==
  IF outcome.ok THEN outcome.out ELSE outcome.error.message

\* variant: when the output outgrew maxBuffer, the part captured so far is
\* stored as the pod's log text
FetchEntryTruncated(outcome) ==
  IF outcome.ok THEN outcome.out
  ELSE IF "stdout" \in DOMAIN outcome.error THEN outcome.error.stdout
  ELSE <<"Error: ">> \o outcome.error.message

\* what the try/catch around one log fetch stores in logsMap[pod]
FetchEntry(outcome) ==
  IF outcome.ok THEN outcome.out ELSE <<"Error: ">> \o outcome.error.message

\* variant: a log fetch that failed is tried a second time
FetchLogsRetryOnce(outcome) ==
  /\ pc = "fetch_logs"
  /\ LET pod == pods[podIdx]
         last == calls[Len(calls)]
         retry == /\ ~outcome.ok
                  /\ ~(last.op = "logs" /\ last.pod = pod /\ ~last.outcome.ok)
         map == ObjSet(logsMap, pod, Text(FetchEntry(outcome)))
         next == IF retry THEN podIdx ELSE NextPod(pods, podIdx + 1)
     IN /\ calls' = Append(calls, [op |-> "logs", pod |-> pod, namespace |-> Namespace,
                                   outcome |-> outcome])
        /\ logsMap' = IF retry THEN logsMap ELSE map
        /\ podIdx' = next
        /\ IF next > Len(pods)
           THEN ReturnFromSelectorLogs(LogsResult(sel, Namespace, map))
           ELSE pc' = "fetch_logs" /\ UNCHANGED <<response, pending>>
  /\ UNCHANGED <<env, reply, parked, prev, req, sel, caller, jobs, jobIdx, allJobLogs, pods, errlog, cin, cout>>

\* variant: the log fetch has no try/catch of its own, so a failure reaches
\* the catch of getLabelSelectorLogs and ends the loop
FetchLogsAbort(outcome) ==
  /\ pc = "fetch_logs"
  /\ LET pod == pods[podIdx]
         map == ObjSet(logsMap, pod, Text(FetchEntry(outcome)))
         next == NextPod(pods, podIdx + 1)
         description == <<"pods with selector \"">> \o sel \o <<"\"">>
     IN /\ calls' = Append(calls, [op |-> "logs", pod |-> pod, namespace |-> Namespace,
                                   outcome |-> outcome])
        /\ IF ~outcome.ok
           THEN /\ ReturnFromSelectorLogs(handleCommandError(outcome.error, description))
                /\ errlog' = Append(errlog, ErrLogEntry(outcome.error, description))
                /\ UNCHANGED <<logsMap, podIdx>>
           ELSE /\ logsMap' = map
                /\ podIdx' = next
                /\ UNCHANGED errlog
                /\ IF next > Len(pods)
                   THEN ReturnFromSelectorLogs(LogsResult(sel, Namespace, map))
                   ELSE pc' = "fetch_logs" /\ UNCHANGED <<response, pending>>
  /\ UNCHANGED <<env, reply, parked, prev, req, sel, caller, jobs, jobIdx, allJobLogs, pods, cin, cout>>

\* getLabelSelectorLogs: one iteration of the loop over pods, and the return
\* after the last one
FetchLogs(outcome) ==
  /\ pc = "fetch_logs"
  /\ LET pod == pods[podIdx]
         map == ObjSet(logsMap, pod, Text(FetchEntry(outcome)))
         next == NextPod(pods, podIdx + 1)
     IN /\ calls' = Append(calls, [op |-> "logs", pod |-> pod, namespace |-> Namespace,
                                   outcome |-> outcome])
        /\ logsMap' = map
        /\ podIdx' = next
        /\ IF next > Len(pods)
           THEN ReturnFromSelectorLogs(LogsResult(sel, Namespace, map))
           ELSE pc' = "fetch_logs" /\ UNCHANGED <<response, pending>>
  /\ UNCHANGED <<env, reply, parked, prev, req, sel, caller, jobs, jobIdx, allJobLogs, pods, errlog, cin, cout>>

\* the cronjob loop after its await: JSON.parse of the awaited text, the
\* allJobLogs assignment, and the next iteration or the return
CronResume ==
  /\ pc = "cron_await"
  /\ LET job == jobs[jobIdx]
         jobLog == pending.body
         value == IF "logs" \in DOMAIN jobLog THEN MapVal(jobLog.logs) ELSE Undefined
         all == ObjSet(allJobLogs, job, value)
     IN /\ allJobLogs' = all
        /\ IF jobIdx < Len(jobs)
           THEN /\ jobIdx' = jobIdx + 1
                /\ sel' = <<"job-name=">> \o jobs[jobIdx + 1]
                /\ pc' = "list_pods"
                /\ UNCHANGED response
           ELSE /\ response' = Returned(CronResult(req.name, Namespace, all))
                /\ pc' = "done"
                /\ UNCHANGED <<jobIdx, sel>>
  /\ UNCHANGED <<env, reply, parked, prev, req, caller, jobs, pods, podIdx, logsMap, pending, calls,
                 errlog, cin, cout>>

Next ==
  \/ \E rt \in ResourceTypeInputs, ns \in NamespaceInputs, ls \in LabelSelectorInputs :
       Start(rt, ns, ls)
  \/ \E o \in LogOutcomes : PodLogs(o)
  \/ \E o \in SelectorOutcomes : ReadSelector(o)
  \/ \E o \in JobListOutcomes : ListJobs(o)
  \/ \E o \in PodListOutcomes \cup JobPodListOutcomes : ListPods(o)
  \/ \E o \in FanoutOutcomes : FetchLogs(o)
  \/ CronResume

Spec == Init /\ [][Next]_vars

\* the arguments of a recorded call, without what the call answered
Question(c) == [x \in DOMAIN c \ {"outcome", "ok", "found", "error"} |-> c[x]]

\* the request is the one handled before
SameRequest(rt, ns, ls) ==
  IF prev = NoRun THEN TRUE
  ELSE prev.req = [resourceType |-> rt, name |-> ReqName,
                   namespace |-> ns, labelSelector |-> ls]

\* the answer recorded in call c is the one outcome gives
Answers(c, outcome) ==
  IF c.op \in {"logs", "get_deployment"} THEN outcome = c.outcome
  ELSE IF outcome.ok # c.ok THEN FALSE
  ELSE IF outcome.ok THEN Split(Trim(outcome.out), " ") = c.found
  ELSE outcome.error = c.error

\* the environment is the one the previous request saw: a call that repeats
\* the previous request's call at the same position gets the same answer
SameAnswer(q, outcome) ==
  IF prev = NoRun THEN TRUE
  ELSE IF Len(calls) >= Len(prev.calls) THEN TRUE
  ELSE IF Question(prev.calls[Len(calls) + 1]) # q THEN TRUE
  ELSE Answers(prev.calls[Len(calls) + 1], outcome)

\* the server's tool handler calls kubectlLogs again: the request, its
\* response and its call record are those of a new activation; the locals
\* get their values from the declarations the new activation runs
Again ==
  /\ pc = "done"
  /\ prev = NoRun
  /\ prev' = [req |-> req, calls |-> calls, response |-> response]
  /\ pc' = "idle"
  /\ req' = NoRequest
  /\ calls' = <<>>
  /\ response' = NoResponse
  /\ UNCHANGED <<env, reply, parked, sel, caller, jobs, jobIdx, allJobLogs, pods, podIdx, logsMap,
                 pending, errlog, cin, cout>>

\* the deployment reads of the replayed runs
ReplaySelectorOutcomes ==
  {o \in SelectorOutcomes : o.ok => Len(o.out.members) <= MaxReplayLabels}

\* a request, then the same request against the same environment
NextReplay ==
  \/ \E rt \in ResourceTypeInputs, ns \in NamespaceInputs, ls \in LabelSelectorInputs :
       /\ pc = "idle"
       /\ SameRequest(rt, ns, ls)
       /\ Start(rt, ns, ls)
  \/ \E o \in LogOutcomes :
       /\ pc = "pod_logs"
       /\ SameAnswer([op |-> "logs", pod |-> req.name, namespace |-> Namespace], o)
       /\ PodLogs(o)
  \/ \E o \in ReplaySelectorOutcomes :
       /\ pc = "read_selector"
       /\ SameAnswer([op |-> "get_deployment", name |-> req.name, namespace |-> Namespace], o)
       /\ ReadSelector(o)
  \/ \E o \in JobListOutcomes :
       /\ pc = "list_jobs"
       /\ SameAnswer([op |-> "get_jobs", selector |-> <<"job-name=">> \o req.name,
                      namespace |-> Namespace], o)
       /\ ListJobs(o)
  \/ \E o \in PodListOutcomes \cup JobPodListOutcomes :
       /\ pc = "list_pods"
       /\ SameAnswer([op |-> "get_pods", selector |-> sel, namespace |-> Namespace], o)
       /\ ListPods(o)
  \/ \E o \in FanoutOutcomes :
       /\ pc = "fetch_logs"
       /\ SameAnswer([op |-> "logs", pod |-> pods[podIdx], namespace |-> Namespace], o)
       /\ FetchLogs(o)
  \/ CronResume
  \/ Again

SpecReplay == Init /\ [][NextReplay]_vars

\* the running activation of kubectlLogs
Running ==
  [pc |-> pc, req |-> req, sel |-> sel, caller |-> caller, jobs |-> jobs,
   jobIdx |-> jobIdx, allJobLogs |-> allJobLogs, pods |-> pods, podIdx |-> podIdx,
   logsMap |-> logsMap, pending |-> pending, calls |-> calls, response |-> response]

\* the running activation is suspended at the await of the cronjob loop, or
\* has returned; the runtime runs the other tool call's handler, which starts
\* or continues after its own await
Switch ==
  /\ pc \in {"cron_await", "done"}
  /\ parked.pc \in {"idle", "cron_await"}
  /\ parked' = Running
  /\ pc' = parked.pc
  /\ req' = parked.req
  /\ sel' = parked.sel
  /\ caller' = parked.caller
  /\ jobs' = parked.jobs
  /\ jobIdx' = parked.jobIdx
  /\ allJobLogs' = parked.allJobLogs
  /\ pods' = parked.pods
  /\ podIdx' = parked.podIdx
  /\ logsMap' = parked.logsMap
  /\ pending' = parked.pending
  /\ calls' = parked.calls
  /\ response' = parked.response
  /\ UNCHANGED <<env, reply, errlog, cin, cout, prev>>

\* what kubectl answers in the runs of two cronjob requests
ConcurrentJobListOutcomes ==
  { ExecOk(<<"job-a">>), ExecOk(<<"job-a", " ", "3">>),
    ExecFail([status |-> 1, message |-> ConnectionMessage]) }
ConcurrentPodListOutcomes == { ExecOk(<<>>), ExecOk(<<"web-1">>) }

\* two tool calls for cronjob logs handled by the same server
NextConcurrent ==
  \/ \E ns \in NamespaceInputs : Start("cronjob", ns, <<>>)
  \/ \E o \in ConcurrentJobListOutcomes : ListJobs(o)
  \/ \E o \in ConcurrentPodListOutcomes : ListPods(o)
  \/ \E o \in FanoutOutcomes : FetchLogs(o)
  \/ CronResume
  \/ Switch

SpecConcurrent == Init /\ [][NextConcurrent]_vars

\* every external call returns and the runtime resumes the request: a step
\* that can be taken is eventually taken
SpecFair == Init /\ [][Next]_vars /\ WF_vars(Next)

TypeOK ==
  /\ pc \in {"idle", "pod_logs", "read_selector", "list_jobs", "list_pods",
             "fetch_logs", "cron_await", "done"}
  /\ caller \in {"top", "cron"}
  /\ response.kind \in {"none", "return", "throw"}
  /\ (pc = "done") = (response.kind # "none")

----------------------------------------------------------------------------
(* handleCommandError on its own: the inputs are an exit status, a message *)
(* and a resource description.                                             *)

\* text in front of the kubectl error line
MessagePrefixes ==
  { <<>>,
    <<"Command failed: kubectl logs", "\n", "error: ">>,
    <<"Error from server (NotFound): pods ", NotFoundMarker, "\n">> }

\* the marker phrase, or other text in its place
MarkerParts == { <<ContainerMarker, " ">>, <<"Unable to connect to the server", " ">> }

\* the "for pod <name>" fragment: absent, followed by a comma, or not
ForPodParts == { <<>>, <<ForPod, "web-1", ",", " ">>, <<ForPod, "web-1", " ">> }

\* a bracketed list after its lead-in phrase, or nothing
BracketParts(lead, names, n) ==
  {<<>>} \cup {<<lead, "[">> \o l \o <<"]", " ">> : l \in SeqsUpTo(names \cup {" "}, n)}

ContainerParts == BracketParts(ChooseOneOf, {"app", "sidecar"}, MaxContainerListLen)
InitParts == BracketParts(InitContainers, {"init"}, MaxInitListLen)

ClassifierMessages ==
  {p \o m \o f \o c \o i :
     p \in MessagePrefixes, m \in MarkerParts, f \in ForPodParts,
     c \in ContainerParts, i \in InitParts}

ClassifierStatuses == {1, 404}

\* resource descriptions the callers of handleCommandError build
ClassifierDescriptions ==
  { <<"pod ">> \o ReqName,
    <<"deployment", " ">> \o ReqName,
    <<"pods with selector \"">> \o <<"job-name=">> \o ReqName \o <<"\"">> }

InitClassify ==
  /\ pc = "classify"
  /\ req = NoRequest
  /\ sel = <<>>
  /\ caller = "top"
  /\ jobs = <<>>
  /\ jobIdx = 0
  /\ allJobLogs = <<>>
  /\ pods = <<>>
  /\ podIdx = 0
  /\ logsMap = <<>>
  /\ pending = NoResult
  /\ calls = <<>>
  /\ errlog = <<>>
  /\ response = NoResponse
  /\ cin \in [status : ClassifierStatuses, message : ClassifierMessages,
              description : ClassifierDescriptions]
  /\ cout = NoResult
  /\ prev = NoRun
  /\ parked = NotStarted
  /\ env = NoFilters
  /\ reply = NoReply

Classify ==
  /\ pc = "classify"
  /\ cout' = handleCommandError([status |-> cin.status, message |-> cin.message],
                                cin.description)
  /\ pc' = "classified"
  /\ UNCHANGED <<env, reply, parked, prev, req, sel, caller, jobs, jobIdx, allJobLogs, pods, podIdx, logsMap,
                 pending, calls, errlog, response, cin>>

NextClassify == Classify

SpecClassify == InitClassify /\ [][NextClassify]_vars

----------------------------------------------------------------------------
(* Properties of handleCommandError (checked under SpecClassify) *)

\* the payload of a not_found classification
NotFoundBody(description) ==
  [error |-> <<"Resource ">> \o description \o <<" ", NotFoundMarker>>,
   status |-> "not_found"]

\* C7: whatever the resource description, a failure whose exit status is 404
\* or whose message contains "not found" is classified not_found, with the
\* message "Resource <resource description> not found".
C7_NotFoundAnyResource ==
  (pc = "classified" /\ (cin.status = 404 \/ Includes(cin.message, NotFoundMarker)))
    => cout = [isError |-> TRUE, body |-> NotFoundBody(cin.description)]

\* a 404 failure of a deployment read whose message has no "not found" text
\* was classified not_found
C7_Witness ==
  /\ pc = "classified"
  /\ cin.status = 404
  /\ ~Includes(cin.message, NotFoundMarker)
  /\ cin.description = <<"deployment", " ">> \o ReqName
  /\ cout.body = NotFoundBody(cin.description)

\* a list of names as kubectl prints it: separated by single blanks
ContainerNameSeqs == SeqsUpTo({"app", "sidecar"}, 2)
InitNameSeqs == SeqsUpTo({"init"}, 1)
AsStrings(names) == [i \in 1..Len(names) |-> <<names[i]>>]
BlankJoined(names) == Join(AsStrings(names), <<" ">>)

\* a message with the marker and the fragments
\* "for pod P, choose one of: [c1 ... cn] or one of the init containers: [i1 ... im]"
FragmentMessage(prefix, podName, cs, is) ==
  prefix \o <<ContainerMarker, " ">> \o <<ForPod, podName, ",", " ">>
    \o <<ChooseOneOf, "[">> \o BlankJoined(cs) \o <<"]", " ">>
    \o <<InitContainers, "[">> \o BlankJoined(is) \o <<"]", " ">>

\* the multi-container classification naming pod P and the two lists
IsMultiContainerResult(result, podName, cs, is) ==
  /\ result.isError
  /\ result.body.status = "multi_container_error"
  /\ result.body.pod_name = <<podName>>
  /\ result.body.available_containers = AsStrings(cs)
  /\ result.body.init_containers = AsStrings(is)

\* C8 as stated: every message with the marker and the fragments is
\* classified multi-container with pod P and the lists c1..cn and i1..im.
C8_AsStated ==
  pc = "classified" =>
    \A p \in MessagePrefixes, cs \in ContainerNameSeqs, is \in InitNameSeqs :
      cin.message = FragmentMessage(p, "web-1", cs, is)
        => IsMultiContainerResult(cout, "web-1", cs, is)

\* C8 (amended): every failure that does not match the not-found rule (exit
\* status other than 404, no "not found" in the message) and whose message
\* has the marker and the fragments is classified multi-container with pod P
\* and the lists c1..cn and i1..im, in message order.
C8_MultiContainerFields ==
  (pc = "classified" /\ cin.status # 404 /\ ~Includes(cin.message, NotFoundMarker)) =>
    \A p \in MessagePrefixes, cs \in ContainerNameSeqs, is \in InitNameSeqs :
      cin.message = FragmentMessage(p, "web-1", cs, is)
        => IsMultiContainerResult(cout, "web-1", cs, is)

\* the message of the example (web-1, [app sidecar], [init]) was classified
C8_Witness ==
  /\ pc = "classified"
  /\ cin.status = 1
  /\ cin.message = FragmentMessage(<<"Command failed: kubectl logs", "\n", "error: ">>,
                                   "web-1", <<"app", "sidecar">>, <<"init">>)
  /\ cout.body.status = "multi_container_error"
  /\ cout.body.available_containers = << <<"app">>, <<"sidecar">> >>
  /\ cout.body.init_containers = << <<"init">> >>

----------------------------------------------------------------------------
(* Properties of kubectlLogs (checked under Spec) *)

\* the non-empty names of a listing
Discovered(names) == {names[i] : i \in 1..Len(names)} \ {<<>>}

KeySet(o) == {o[i].k : i \in 1..Len(o)}

IsPodListing(i) == calls[i].op = "get_pods"
IsLogFetch(i) == calls[i].op = "logs"

\* the pod listing call whose fan-out call j belongs to
ListingOf(j) == CHOOSE i \in 1..j : IsPodListing(i) /\ \A k \in (i + 1)..j : ~IsPodListing(k)

\* the log fetches issued for pod listing i
FetchesOf(i) ==
  {j \in (i + 1)..Len(calls) : IsLogFetch(j) /\ \A k \in (i + 1)..j : ~IsPodListing(k)}

\* the last log fetch issued for a pod of listing i
LastFetchOf(i, pod) ==
  CHOOSE j \in FetchesOf(i) : calls[j].pod = pod
                                /\ \A k \in FetchesOf(i) : calls[k].pod = pod => k <= j

\* a request of the label-selector, deployment or job branch has returned
\* after pod listing i found at least one pod
FlatFanOutDone(i) ==
  /\ pc = "done"
  /\ caller = "top"
  /\ IsPodListing(i)
  /\ calls[i].ok
  /\ Discovered(calls[i].found) # {}

\* C1: a flat fan-out over N discovered pods, K of whose log fetches fail,
\* returns the aggregate report with exactly N entries, one per discovered
\* pod, and every discovered pod was fetched.
C1_FanOutKeepsEveryPod ==
  \A i \in 1..Len(calls) :
    FlatFanOutDone(i) =>
      /\ response.kind = "return"
      /\ ~response.isError
      /\ DOMAIN response.body = {"selector", "namespace", "logs"}
      /\ KeySet(response.body.logs) = Discovered(calls[i].found)
      /\ Len(response.body.logs) = Cardinality(Discovered(calls[i].found))
      /\ {calls[j].pod : j \in FetchesOf(i)} = Discovered(calls[i].found)

\* a job request listed two pods; the fetch for the first failed, the fetch
\* for the second succeeded, and the report has both entries
C1_Witness ==
  /\ pc = "done"
  /\ ResourceType = "job"
  /\ Len(calls) = 3
  /\ calls[1].found = << <<"web-1">>, <<>>, <<"7">> >>
  /\ ~calls[2].outcome.ok
  /\ calls[3].outcome.ok
  /\ Len(response.body.logs) = 2

\* a fan-out (of any branch) has just finished with result r
FanOutFinished(i) ==
  /\ IsPodListing(i)
  /\ calls[i].ok
  /\ Discovered(calls[i].found) # {}
  /\ \A k \in (i + 1)..Len(calls) : ~IsPodListing(k)
  /\ \/ pc = "done" /\ caller = "top"
     \/ pc = "cron_await"

FanOutResult == IF caller = "top" THEN response ELSE pending

\* a classified error stored in a map
Classified(body) == [t |-> "classified", body |-> body]

JobOfListing(i) == SubSeq(calls[i].selector, 2, Len(calls[i].selector))

\* the value a cronjob report would hold for a job without pods
NoPodsValue(labelSelector, namespace) ==
  [t |-> "message", s |-> NoPodsResult(labelSelector, namespace).body.message]

\* C3: whenever a pod listing ran and found no pod, the response carries the
\* "No pods found" message of that listing: as the whole report in the
\* label-selector, deployment and job branches, under the job's key in the
\* cronjob branch.
C3_EmptyListingIsReported ==
  \A i \in 1..Len(calls) :
    (pc = "done" /\ IsPodListing(i) /\ calls[i].ok /\ Discovered(calls[i].found) = {}) =>
      /\ response.kind = "return"
      /\ ~response.isError
      /\ IF caller = "top"
         THEN response.body = NoPodsResult(calls[i].selector, Namespace).body
         ELSE /\ DOMAIN response.body = {"cronjob", "namespace", "jobs"}
              /\ (\A k \in (i + 1)..Len(calls) :
                    IsPodListing(k) => JobOfListing(k) # JobOfListing(i))
                   => ObjGet(response.body.jobs, JobOfListing(i))
                        = NoPodsValue(calls[i].selector, Namespace)

\* the flat part of C3 alone: in the label-selector, deployment and job
\* branches an empty listing yields exactly the "No pods found" message
C3_FlatEmptyListing ==
  \A i \in 1..Len(calls) :
    (pc = "done" /\ caller = "top" /\ IsPodListing(i) /\ calls[i].ok
       /\ Discovered(calls[i].found) = {}) =>
      response = Returned(NoPodsResult(calls[i].selector, Namespace))

\* C4: a cronjob request whose job listing succeeds with zero jobs returns
\* the message "No jobs found for cronjob <name> in namespace <ns>", not as
\* an error, after the job listing as its only external call.
C4_NoJobsMessage ==
  (/\ ResourceType = "cronjob"
   /\ Len(calls) >= 1
   /\ calls[1].op = "get_jobs"
   /\ calls[1].ok
   /\ Discovered(calls[1].found) = {}) =>
     /\ pc = "done"
     /\ Len(calls) = 1
     /\ response = [kind |-> "return", isError |-> FALSE,
                    body |-> [message |-> <<"No jobs found for cronjob ">> \o req.name
                                            \o <<" in namespace ">> \o Namespace]]

\* a cronjob request in namespace prod whose job listing printed nothing
C4_Witness ==
  /\ pc = "done"
  /\ req.resourceType = "cronjob"
  /\ req.namespace = <<"prod">>
  /\ Len(calls) = 1
  /\ calls[1].ok
  /\ calls[1].found = << <<>> >>
  /\ response.body.message =
       <<"No jobs found for cronjob ", "web", " in namespace ", "prod">>

\* the last pod listing issued for a job of a cronjob request
LastListingFor(job) ==
  CHOOSE i \in 1..Len(calls) :
    /\ IsPodListing(i)
    /\ JobOfListing(i) = job
    /\ \A k \in (i + 1)..Len(calls) : IsPodListing(k) => JobOfListing(k) # job

\* podName -> outcome of the fan-out of pod listing i
RECURSIVE Aggregation(_, _, _)
Aggregation(i, j, map) ==
  IF j > Len(calls) \/ IsPodListing(j) THEN map
  ELSE Aggregation(i, j + 1, ObjSet(map, calls[j].pod, Text(FetchEntry(calls[j].outcome))))

\* C5: the report of a cronjob request that discovered jobs J1..Jm has an
\* entry under every Ji, holding the podName -> outcome aggregation of the
\* pods selected by job-name=Ji.
C5_EveryJobHasEntry ==
  (/\ pc = "done"
   /\ ResourceType = "cronjob"
   /\ calls[1].ok
   /\ Discovered(calls[1].found) # {}) =>
     /\ response.kind = "return"
     /\ DOMAIN response.body = {"cronjob", "namespace", "jobs"}
     /\ \A job \in Discovered(calls[1].found) :
          /\ HasKey(response.body.jobs, job)
          /\ calls[LastListingFor(job)].selector = <<"job-name=">> \o job
          /\ ObjGet(response.body.jobs, job)
               = MapVal(Aggregation(LastListingFor(job), LastListingFor(job) + 1, <<>>))

\* a step that determines which identifiers to fetch failed to run
ResolutionFailed(i) ==
  \/ calls[i].op = "get_deployment" /\ ~calls[i].outcome.ok
  \/ calls[i].op = "get_jobs" /\ ~calls[i].ok
  \/ calls[i].op = "get_pods" /\ ~calls[i].ok

\* C6: a request in which the deployment read, the job listing or a pod
\* listing failed ends in a failure: an isError payload or a thrown error.
C6_ResolutionFailureFailsRequest ==
  \A i \in 1..Len(calls) :
    (pc = "done" /\ ResolutionFailed(i)) =>
      \/ response.kind = "throw"
      \/ response.kind = "return" /\ response.isError

\* C6 without the cronjob loop: outside a cronjob request's per-job pod
\* listings, a failed resolution step ends the request with an isError payload
C6_TopLevelResolutionFailure ==
  \A i \in 1..Len(calls) :
    (pc = "done" /\ ResolutionFailed(i) /\ caller = "top") =>
      response.kind = "return" /\ response.isError

\* C9: a failure handleCommandError classified not_found or multi-container
\* is what kubectlLogs returns, as the payload {error, status, ...}; nothing
\* is thrown.
C9_ClassifiedFailureIsReturned ==
  \A i \in 1..Len(errlog) :
    (pc = "done" /\ errlog[i].result.body.status \in {"not_found", "multi_container_error"}) =>
      /\ response.kind = "return"
      /\ response.isError
      /\ response.body = errlog[i].result.body

\* C9 outside the cronjob loop: there the classified payload is the response
C9_TopLevelClassifiedFailure ==
  \A i \in 1..Len(errlog) :
    (pc = "done" /\ caller = "top") => response = Returned(errlog[i].result)

\* "k1=v1,...,kn=vn" for the entries of a map
RECURSIVE ExpectedSelector(_)
ExpectedSelector(entries) ==
  IF entries = <<>> THEN <<>>
  ELSE Head(entries).k \o <<"=">> \o Head(entries).v
         \o (IF Len(entries) > 1 THEN <<",">> \o ExpectedSelector(Tail(entries)) ELSE <<>>)

\* the members of a JSON text as entries, in text order
AsEntries(members) ==
  [i \in 1..Len(members) |-> [k |-> <<members[i][1]>>, v |-> <<members[i][2]>>]]

\* member names are pairwise different and none is an array index
PlainMembers(members) ==
  /\ \A i, j \in 1..Len(members) : members[i][1] = members[j][1] => i = j
  /\ \A i \in 1..Len(members) : ~IsArrayIndex(<<members[i][1]>>)

\* C10: after a deployment's matchLabels read returned a map, the selector
\* of the pod listing is "k1=v1,...,kn=vn": the map's entries in iteration
\* order, joined by commas, without blanks.
C10_DeploymentSelector ==
  (/\ ResourceType = "deployment"
   /\ Len(calls) >= 1
   /\ calls[1].outcome.ok
   /\ calls[1].outcome.out.json = "object") =>
     /\ pc # "done" \/ Len(calls) >= 2
     /\ sel = ExpectedSelector(ParseMembers(calls[1].outcome.out.members, <<>>))
     /\ PlainMembers(calls[1].outcome.out.members)
          => sel = ExpectedSelector(AsEntries(calls[1].outcome.out.members))
     /\ \A k \in 1..Len(sel) : sel[k] # " "
     /\ Len(calls) >= 2 => calls[2].op = "get_pods" /\ calls[2].selector = sel

\* the deployment of the example: {app: x, tier: web} gives app=x,tier=web
C10_Witness ==
  /\ ResourceType = "deployment"
  /\ Len(calls) >= 2
  /\ calls[1].outcome.ok
  /\ calls[1].outcome.out = [json |-> "object",
                             members |-> << <<"app", "x">>, <<"tier", "web">> >>]
  /\ calls[2].selector = <<"app", "=", "x", ",", "tier", "=", "web">>

----------------------------------------------------------------------------
(* C11: unsupported resource types *)

\* the request names a resource type outside the schema's enum
Unsupported == req # NoRequest /\ ResourceType \notin SupportedKinds

\* a failed request: an error thrown, or a returned general_error payload
GeneralFailure ==
  \/ response.kind = "throw"
  \/ /\ response.kind = "return"
     /\ response.isError
     /\ response.body.status = "general_error"

\* C11 as stated: a request for an unsupported resource type fails with a
\* general failure and issues no external call, whatever its labelSelector
C11_AsStated ==
  Unsupported => /\ calls = <<>>
                 /\ pc = "done" => GeneralFailure

\* C11: a request for an unsupported resource type and without labelSelector
\* ends, before any external call, with the InvalidRequest error
\* "Unsupported resource type: <type>"; with a labelSelector it is handled
\* as a label selector request and every call it issues uses that selector
C11_UnsupportedWithoutSelector ==
  Unsupported =>
    IF req.labelSelector = <<>>
    THEN /\ pc = "done"
         /\ calls = <<>>
         /\ response = [kind |-> "throw", code |-> "InvalidRequest",
                        message |-> <<"Unsupported resource type: ", ResourceType>>]
    ELSE /\ pc \in {"list_pods", "fetch_logs", "done"}
         /\ \A i \in 1..Len(calls) :
              calls[i].op = "get_pods" => calls[i].selector = req.labelSelector

C11_Witness ==
  /\ Unsupported
  /\ req.labelSelector = <<>>
  /\ pc = "done"
  /\ response.kind = "throw"

----------------------------------------------------------------------------
(* C12: order of the entries of a report *)

\* the position at which a listing first emits a name
FirstPos(names, n) ==
  CHOOSE i \in 1..Len(names) : names[i] = n /\ \A j \in 1..(i - 1) : names[j] # n

\* the entries of an emitted map come in the order the listing emitted them
FollowsListing(o, names) ==
  \A a, b \in 1..Len(o) :
    a < b => FirstPos(names, o[a].k) < FirstPos(names, o[b].k)

\* C12: in every aggregate report the entries of the logs map come in the
\* order in which the pod listing emitted the pod names, and the job entries
\* of a cronjob report in the order in which the job listing emitted the jobs
C12_OrderFollowsListing ==
  /\ \A i \in 1..Len(calls) :
       FlatFanOutDone(i) => FollowsListing(response.body.logs, calls[i].found)
  /\ (pc = "done" /\ response.kind = "return" /\ "jobs" \in DOMAIN response.body)
       => FollowsListing(response.body.jobs, calls[1].found)

----------------------------------------------------------------------------
(* C13: the same request twice (checked under SpecReplay) *)

\* the classification of one entry of a report
EntryKind(v) ==
  IF v.t = "map" THEN "map"
  ELSE IF v.s # <<>> /\ Head(v.s) = "Error: " THEN "error"
  ELSE "logs"

\* the keys of a map of a report, in order, each with the kind of its entry
RECURSIVE KeysAndKinds(_)
KeysAndKinds(o) ==
  [i \in 1..Len(o) |->
     [k |-> o[i].k, kind |-> EntryKind(o[i].v),
      inner |-> IF o[i].v.t = "map" THEN KeysAndKinds(o[i].v.e) ELSE <<>>]]

\* what two responses must agree on: how the request ended and, for an
\* aggregate report, its keys and the kind of every entry
ReportShape(r) ==
  IF r.kind # "return" THEN [kind |-> r.kind, code |-> r.code]
  ELSE IF r.isError THEN [kind |-> "failure", status |-> r.body.status]
  ELSE IF "jobs" \in DOMAIN r.body
  THEN [kind |-> "report", entries |-> KeysAndKinds(r.body.jobs)]
  ELSE IF "selector" \in DOMAIN r.body
  THEN [kind |-> "report", entries |-> KeysAndKinds(r.body.logs)]
  ELSE [kind |-> "report", fields |-> DOMAIN r.body]

\* C13: the same request handled a second time against the same environment
\* (same listing results, same fetch outcomes) ends the same way, and its
\* report has the same keys with the same kind of entry under every key
C13_SameRequestSameReport ==
  (prev # NoRun /\ pc = "done") => ReportShape(response) = ReportShape(prev.response)

\* a cronjob request was repeated; both reports have an entry for each of two
\* jobs, and one of the pods' fetches failed
C13_Witness ==
  /\ prev # NoRun
  /\ pc = "done"
  /\ ResourceType = "cronjob"
  /\ response.kind = "return"
  /\ "jobs" \in DOMAIN response.body
  /\ Len(response.body.jobs) = 2
  /\ \E i \in 1..Len(calls) : calls[i].op = "logs" /\ ~calls[i].outcome.ok
  /\ calls = prev.calls

----------------------------------------------------------------------------
(* C14: shapes of the responses *)

\* every entry of a logs map is a string
IsPodMap(o) == \A i \in 1..Len(o) : o[i].v.t = "text"

\* every entry of a jobs map is a logs map
IsJobMap(o) == \A i \in 1..Len(o) : o[i].v.t = "map" /\ IsPodMap(o[i].v.e)

\* the listing recorded as call i answered and named nothing
FoundNothing(i) == calls[i].ok /\ Discovered(calls[i].found) = {}

\* C14: a returned response that is not an error is {name, logs} for a pod
\* request; {selector, namespace, logs} with a string per pod for a label
\* selector, deployment or job request; {cronjob, namespace, jobs} with a
\* logs map per job for a cronjob request; or {message}, exactly when the
\* request's listing (of pods, of jobs for a cronjob) named nothing.  Every
\* returned error payload has an error and a status field.
C14_ResponseShapes ==
  (pc = "done" /\ response.kind = "return") =>
    LET body == response.body
        last == Len(calls)
    IN IF response.isError
       THEN {"error", "status"} \subseteq DOMAIN body
       ELSE IF ResourceType = "pod"
       THEN DOMAIN body = {"name", "logs"}
       ELSE IF ResourceType = "cronjob"
       THEN IF FoundNothing(1)
            THEN DOMAIN body = {"message"}
            ELSE /\ DOMAIN body = {"cronjob", "namespace", "jobs"}
                 /\ IsJobMap(body.jobs)
       ELSE IF calls[last].op = "get_pods" /\ FoundNothing(last)
            THEN DOMAIN body = {"message"}
            ELSE /\ DOMAIN body = {"selector", "namespace", "logs"}
                 /\ IsPodMap(body.logs)

\* a deployment request whose pod listing named nothing was answered with
\* a message
C14_Witness ==
  /\ pc = "done"
  /\ ResourceType = "deployment"
  /\ response.kind = "return"
  /\ ~response.isError
  /\ Len(calls) = 2
  /\ FoundNothing(2)
  /\ DOMAIN response.body = {"message"}

----------------------------------------------------------------------------
(* C15: termination (checked under SpecFair) *)

\* the request ended without a report
TopLevelFailure ==
  /\ pc = "done"
  /\ \/ response.kind = "throw"
     \/ response.kind = "return" /\ response.isError

\* the request ended with a report or a message
Reported == pc = "done" /\ response.kind = "return" /\ ~response.isError

\* a top-level failure comes from no call at all, from the single fetch of a
\* pod request, or from a listing or selector read: never from a log fetch
\* of a fan-out
FailedInResolution ==
  \/ calls = <<>>
  \/ ResourceType = "pod"
  \/ LET c == calls[Len(calls)]
     IN /\ c.op # "logs"
        /\ c.op \in {"get_pods", "get_jobs"} => ~c.ok

\* C15: when every external call returns, every request ends, either with
\* its report or with a top-level failure, and a top-level failure is never
\* the consequence of a failed log fetch of a fan-out
C15_Terminates ==
  /\ <>(pc = "done")
  /\ [](pc = "done" => (Reported # TopLevelFailure))
  /\ [](TopLevelFailure => FailedInResolution)

\* a deployment request ended with its report although a log fetch of its
\* fan-out failed
C15_Witness ==
  /\ Reported
  /\ ResourceType = "deployment"
  /\ "logs" \in DOMAIN response.body
  /\ \E i \in 1..Len(calls) : calls[i].op = "logs" /\ ~calls[i].outcome.ok

----------------------------------------------------------------------------
(* C16: one request at a time (checked under SpecConcurrent) *)

\* the parked activation is suspended inside the cronjob loop and has jobs
\* left, so it will issue further external calls
SuspendedWithJobsLeft ==
  parked.pc = "cron_await" /\ parked.jobIdx < Len(parked.jobs)

\* C16: a request runs to completion before another request's steps are
\* executed: no request issues an external call while another request,
\* suspended at the await of the cronjob loop, still has calls to issue
C16_NoInterleaving == SuspendedWithJobsLeft => calls = <<>>

----------------------------------------------------------------------------
(* C17, C19: the order of the classifier's rules (checked under SpecClassify) *)

\* the phrase occurs in the classified message
Mentions(phrase) == \E i \in 1..Len(cin.message) : cin.message[i] = phrase

\* the not-found rule and the container rule apply to the classified failure
NotFoundRule == cin.status = 404 \/ Mentions(NotFoundMarker)
ContainerRule == Mentions(ContainerMarker)

\* C17: the rules are tried in the order not found, container name must be
\* specified, general: a failure the not-found rule matches is not_found
\* even when its message has the container marker too, and every failure
\* gets exactly one of the three kinds
C17_StrictPriority ==
  pc = "classified" =>
    /\ cout.isError
    /\ cout.body.status =
         (IF NotFoundRule THEN "not_found"
          ELSE IF ContainerRule THEN "multi_container_error"
          ELSE "general_error")

\* a message with both markers and exit status 1 was classified not_found
C17_Witness ==
  /\ pc = "classified"
  /\ cin.status = 1
  /\ Mentions(NotFoundMarker)
  /\ ContainerRule
  /\ cout.body.status = "not_found"

----------------------------------------------------------------------------
(* C18: the lists of a multi-container classification *)

\* the text between the brackets of a bracketed part
Inside(part) == IF part = <<>> THEN <<>> ELSE SubSeq(part, 3, Len(part) - 2)

\* the names of a text in which runs of blanks separate names
RECURSIVE NonEmpty(_)
NonEmpty(parts) ==
  IF parts = <<>> THEN <<>>
  ELSE IF Head(parts) = <<>> THEN NonEmpty(Tail(parts))
  ELSE <<Head(parts)>> \o NonEmpty(Tail(parts))
NamesIn(text) == NonEmpty(Split(text, " "))

\* C18 (defaults): without a "for pod" fragment the pod name is "unknown",
\* and without a bracketed fragment the list is empty
C18_Defaults ==
  (pc = "classified" /\ cout.body.status = "multi_container_error") =>
    \A p \in MessagePrefixes, f \in ForPodParts, c \in ContainerParts, i \in InitParts :
      cin.message = p \o <<ContainerMarker, " ">> \o f \o c \o i =>
        /\ f = <<>> => cout.body.pod_name = <<"unknown">>
        /\ c = <<>> => cout.body.available_containers = <<>>
        /\ i = <<>> => cout.body.init_containers = <<>>

\* C18: in a multi-container classification each list holds exactly the
\* names of its bracketed fragment, whatever run of blanks separates them,
\* and no empty string; the defaults are "unknown" and the empty list
C18_SplitOnWhitespace ==
  (pc = "classified" /\ cout.body.status = "multi_container_error") =>
    /\ C18_Defaults
    /\ \A p \in MessagePrefixes, f \in ForPodParts, c \in ContainerParts, i \in InitParts :
         cin.message = p \o <<ContainerMarker, " ">> \o f \o c \o i =>
           /\ cout.body.available_containers = NamesIn(Inside(c))
           /\ cout.body.init_containers = NamesIn(Inside(i))

\* C19: a failure that matches neither the not-found rule nor the container
\* marker is classified general_error; its payload carries the message as it
\* came (original_error) and the description "Failed to get logs for
\* <resource>: <message>"
C19_GeneralKeepsMessage ==
  (pc = "classified" /\ ~NotFoundRule /\ ~ContainerRule) =>
    /\ cout.isError
    /\ cout.body = [error |-> <<"Failed to get logs for ">> \o cin.description
                                \o <<": ">> \o cin.message,
                    status |-> "general_error",
                    original_error |-> cin.message]

\* a connection failure, whose message ends with a blank, was classified
C19_Witness ==
  /\ pc = "classified"
  /\ cin.status = 1
  /\ cin.message = <<"Command failed: kubectl logs", "\n", "error: ",
                     "Unable to connect to the server", " ">>
  /\ cout.body.status = "general_error"
  /\ cout.body.original_error = cin.message

----------------------------------------------------------------------------
(* C20: a deployment whose selector cannot be read (checked under Spec) *)

\* the deployment read of a finished deployment request threw, or JSON.parse
\* or Object.entries threw on what it printed
SelectorUnreadable ==
  /\ pc = "done"
  /\ ResourceType = "deployment"
  /\ calls[1].op = "get_deployment"
  /\ ~calls[1].outcome.ok \/ calls[1].outcome.out.json # "object"

\* the phrase occurs in the message of the failed deployment read
ReadMentions(phrase) ==
  /\ ~calls[1].outcome.ok
  /\ \E i \in 1..Len(calls[1].outcome.error.message) :
       calls[1].outcome.error.message[i] = phrase

\* C20 as stated: whenever the selector cannot be read or parsed the
\* request fails with kind general, and no pod listing or log fetch is issued
C20_AsStated ==
  SelectorUnreadable =>
    /\ response.kind = "return"
    /\ response.isError
    /\ response.body.status = "general_error"
    /\ Len(calls) = 1

\* C20 (amended): whenever the selector cannot be read or parsed the request
\* fails with the kind the classifier gives the failure (not_found when the
\* read reports the deployment absent, general_error for any other read
\* failure without the container marker and for every payload that cannot
\* be parsed), and no pod listing or log fetch is issued
C20_SelectorFailureEndsRequest ==
  SelectorUnreadable =>
    /\ response.kind = "return"
    /\ response.isError
    /\ response.body.status =
         (IF calls[1].outcome.ok THEN "general_error"
          ELSE IF calls[1].outcome.error.status = 404 \/ ReadMentions(NotFoundMarker)
          THEN "not_found"
          ELSE IF ReadMentions(ContainerMarker) THEN "multi_container_error"
          ELSE "general_error")
    /\ Len(calls) = 1

\* the deployment read printed null: the request failed with general_error
\* after its only call
C20_Witness ==
  /\ SelectorUnreadable
  /\ calls[1].outcome.ok
  /\ calls[1].outcome.out.json = "null"
  /\ response.kind = "return"
  /\ response.body.status = "general_error"
  /\ Len(calls) = 1

----------------------------------------------------------------------------
(* C21: no external invocation is repeated (checked under Spec) *)

\* how many recorded calls are invocations of op
CountOf(op) == Cardinality({i \in 1..Len(calls) : calls[i].op = op})

\* the pods whose logs were fetched for pod listing i, in the order of the
\* fetches (the fetches of a listing follow it without another call between)
FetchedPods(i) == [k \in 1..Cardinality(FetchesOf(i)) |-> calls[i + k].pod]

\* s is an initial part of t
IsPrefix(s, t) == Len(s) <= Len(t) /\ s = SubSeq(t, 1, Len(s))

\* C21: within a request nothing is invoked a second time: one log fetch
\* for a pod request; one deployment read, one job listing; one pod listing
\* per selector (one per listed job for a cronjob); and for every pod
\* listing one log fetch per listed pod, in listing order, whether the
\* fetches fail or not, so that N listed pods get at most N fetches
C21_NoRetry ==
  /\ CountOf("get_deployment") <= 1
  /\ CountOf("get_jobs") <= 1
  /\ ResourceType = "pod" => Len(calls) <= 1
  /\ (req # NoRequest /\ ResourceType \notin {"pod", "cronjob"}) => CountOf("get_pods") <= 1
  /\ ResourceType = "cronjob" =>
       (calls # <<>> => CountOf("get_pods") <= Len(calls[1].found))
  /\ \A i \in 1..Len(calls) :
       IsPodListing(i) =>
         /\ FetchesOf(i) = (i + 1)..(i + Cardinality(FetchesOf(i)))
         /\ IsPrefix(FetchedPods(i), NonEmpty(calls[i].found))

\* a job request listed web-1 and 7; the fetch for web-1 failed and the next
\* and last call was the fetch for 7
C21_Witness ==
  /\ pc = "done"
  /\ ResourceType = "job"
  /\ Len(calls) = 3
  /\ calls[1].found = << <<"web-1">>, <<"7">> >>
  /\ calls[2].pod = <<"web-1">>
  /\ ~calls[2].outcome.ok
  /\ calls[3].pod = <<"7">>

----------------------------------------------------------------------------
(* The output-size ceiling of the log fetches *)

\* the part of the output captured before the ceiling was reached
TruncatedOutput == <<"log line">>

\* what execFileSync throws when the output outgrows maxBuffer: no exit
\* status, the runtime's message, and the captured part in error.stdout
BufferError ==
  [status |-> NoStatus, message |-> <<"spawnSync kubectl ENOBUFS">>, stdout |-> TruncatedOutput]

\* outcomes of a log fetch under the ceiling: the whole text, or the overflow
CeilingOutcomes == {ExecOk(t) : t \in LogTexts} \cup {ExecFail(BufferError)}

\* requests that fetch logs: a pod, a job's pods, the pods of a selector
NextCeiling ==
  \/ \E rt \in {"pod", "job", "service"}, ns \in NamespaceInputs, ls \in LabelSelectorInputs :
       Start(rt, ns, ls)
  \/ \E o \in CeilingOutcomes : PodLogs(o)
  \/ \E o \in PodListOutcomes : ListPods(o)
  \/ \E o \in CeilingOutcomes : FetchLogs(o)

SpecCeiling == Init /\ [][NextCeiling]_vars

Overflowed(o) == ~o.ok /\ o.error = BufferError

\* a single-pod request whose fetch overflowed has returned
PodOverflowed ==
  /\ pc = "done"
  /\ ResourceType = "pod"
  /\ Overflowed(calls[1].outcome)

\* the response of a single-pod request is a general failure that carries
\* the overflow's message
PodReportsGeneral ==
  /\ response.kind = "return"
  /\ response.isError
  /\ response.body.status = "general_error"
  /\ response.body.original_error = BufferError.message

----------------------------------------------------------------------------
(* The selector of a job's pods *)

\* the pod listings among the first i calls
ListingsUpTo(i) == {k \in 1..i : IsPodListing(k)}

\* a job request has issued its pod listing
JobListed == req # NoRequest /\ ResourceType = "job" /\ calls # <<>>

\* C23: a job request for name n hands exactly "job-name=n" to the pod
\* discoverer, and its first external call is the pod listing with that
\* selector; in a cronjob request the first call is the job listing and the
\* k-th pod listing uses exactly "job-name=" followed by the k-th name of
\* that listing
C23_JobNameSelector ==
  /\ (req # NoRequest /\ ResourceType = "job") =>
       /\ pc # "idle" => sel = <<"job-name=">> \o req.name
       /\ pc = "done" => calls # <<>>
       /\ calls # <<>> =>
            /\ calls[1].op = "get_pods"
            /\ calls[1].selector = <<"job-name=">> \o req.name
  /\ (req # NoRequest /\ ResourceType = "cronjob") =>
       \A i \in 1..Len(calls) :
         IsPodListing(i) =>
           LET k == Cardinality(ListingsUpTo(i))
           IN /\ calls[1].op = "get_jobs"
              /\ k <= Len(calls[1].found)
              /\ calls[i].selector = <<"job-name=">> \o calls[1].found[k]

\* a cronjob request listed job-a and 3 and has listed the pods of both,
\* each with the job's name in the selector
C23_CronWitness ==
  /\ ResourceType = "cronjob"
  /\ Len(calls) >= 3
  /\ calls[1].found = << <<"job-a">>, <<"3">> >>
  /\ calls[2].op = "get_pods"
  /\ calls[2].selector = <<"job-name=", "job-a">>
  /\ IsPodListing(Len(calls))
  /\ calls[Len(calls)].selector = <<"job-name=", "3">>

\* a job request whose first and only call was the pod listing
C23_Witness ==
  /\ JobListed
  /\ pc = "done"
  /\ Len(calls) = 1
  /\ calls[1].selector = <<"job-name=", "web">>

----------------------------------------------------------------------------
(* The server: the tool list and the tool call *)

\* longest ALLOWED_TOOLS value, in atoms
MaxAllowedLen == 3

\* name of the schemas declared in the tools' files
DeclaredName ==
  [schema \in {"kubectlGetSchema", "kubectlLogsSchema", "kubectlScaleSchema",
               "kubectlContextSchema", "explainResourceSchema", "listApiResourcesSchema"} |->
     CASE schema = "kubectlGetSchema" -> "kubectl_get"
       [] schema = "kubectlLogsSchema" -> "kubectl_logs"
       [] schema = "kubectlScaleSchema" -> "kubectl_scale"
       [] schema = "kubectlContextSchema" -> "kubectl_context"
       [] schema = "explainResourceSchema" -> "explain_resource"
       [] schema = "listApiResourcesSchema" -> "list_api_resources"]

\* name of the schemas the server imports from the other tools' files: the
\* name under which the handler dispatches to the function imported with it
ImportedName ==
  [schema \in {"cleanupSchema", "kubectlDescribeSchema", "kubectlApplySchema",
               "kubectlDeleteSchema", "kubectlCreateSchema", "kubectlPatchSchema",
               "kubectlRolloutSchema", "installHelmChartSchema", "upgradeHelmChartSchema",
               "uninstallHelmChartSchema", "PortForwardSchema", "StopPortForwardSchema",
               "execInPodSchema", "kubectlGenericSchema", "pingSchema"} |->
     CASE schema = "cleanupSchema" -> "cleanup"
       [] schema = "kubectlDescribeSchema" -> "kubectl_describe"
       [] schema = "kubectlApplySchema" -> "kubectl_apply"
       [] schema = "kubectlDeleteSchema" -> "kubectl_delete"
       [] schema = "kubectlCreateSchema" -> "kubectl_create"
       [] schema = "kubectlPatchSchema" -> "kubectl_patch"
       [] schema = "kubectlRolloutSchema" -> "kubectl_rollout"
       [] schema = "installHelmChartSchema" -> "install_helm_chart"
       [] schema = "upgradeHelmChartSchema" -> "upgrade_helm_chart"
       [] schema = "uninstallHelmChartSchema" -> "uninstall_helm_chart"
       [] schema = "PortForwardSchema" -> "port_forward"
       [] schema = "StopPortForwardSchema" -> "stop_port_forward"
       [] schema = "execInPodSchema" -> "exec_in_pod"
       [] schema = "kubectlGenericSchema" -> "kubectl_generic"
       [] schema = "pingSchema" -> "ping"]

\* tool.name
ToolName(schema) ==
  IF schema \in DOMAIN DeclaredName THEN DeclaredName[schema] ELSE ImportedName[schema]

readonlyTools ==
  <<"kubectlGetSchema", "kubectlDescribeSchema", "kubectlLogsSchema", "kubectlContextSchema",
    "explainResourceSchema", "listApiResourcesSchema", "pingSchema">>

destructiveTools ==
  <<"kubectlDeleteSchema", "uninstallHelmChartSchema", "cleanupSchema", "kubectlGenericSchema">>

allTools ==
  <<"cleanupSchema",
    "kubectlGetSchema", "kubectlDescribeSchema", "kubectlApplySchema", "kubectlDeleteSchema",
    "kubectlCreateSchema", "kubectlLogsSchema", "kubectlScaleSchema", "kubectlPatchSchema",
    "kubectlRolloutSchema",
    "kubectlContextSchema",
    "explainResourceSchema",
    "installHelmChartSchema", "upgradeHelmChartSchema", "uninstallHelmChartSchema",
    "PortForwardSchema", "StopPortForwardSchema", "execInPodSchema",
    "listApiResourcesSchema",
    "kubectlGenericSchema",
    "pingSchema">>

\* the names of a list of schemas
RECURSIVE Names(_)
Names(tools) ==
  IF tools = <<>> THEN <<>> ELSE <<ToolName(Head(tools))>> \o Names(Tail(tools))

NameSet(tools) == {ToolName(tools[i]) : i \in 1..Len(tools)}

\* tools.filter(...) with a test on tool.name: the tools whose name is in
\* the set, in their order
RECURSIVE FilterByName(_, _)
FilterByName(tools, names) ==
  IF tools = <<>> THEN <<>>
  ELSE (IF ToolName(Head(tools)) \in names THEN <<Head(tools)>> ELSE <<>>)
         \o FilterByName(Tail(tools), names)

\* process.env.ALLOW_ONLY_READONLY_TOOLS === "true"
allowOnlyReadonlyTools == env.ALLOW_ONLY_READONLY_TOOLS = EnvSet(<<"true">>)

\* process.env.ALLOWED_TOOLS, and whether the string is truthy
allowedToolsEnv == env.ALLOWED_TOOLS
Truthy(v) == v.set /\ v.s # <<>>

\* process.env.ALLOW_ONLY_NON_DESTRUCTIVE_TOOLS === "true"
nonDestructiveTools == env.ALLOW_ONLY_NON_DESTRUCTIVE_TOOLS = EnvSet(<<"true">>)

\* allowedToolsEnv.split(",").map((t) => t.trim()), as the names of one atom
allowedToolNames ==
  LET parts == Split(allowedToolsEnv.s, ",")
  IN {Trim(parts[i])[1] : i \in {j \in 1..Len(parts) : Len(Trim(parts[j])) = 1}}

\* the tools the ListTools handler returns
Advertised ==
  IF Truthy(allowedToolsEnv) THEN FilterByName(allTools, allowedToolNames)
  ELSE IF allowOnlyReadonlyTools THEN readonlyTools
  ELSE IF nonDestructiveTools
  THEN FilterByName(allTools, NameSet(allTools) \ NameSet(destructiveTools))
  ELSE allTools

\* values of the filter variables
FlagInputs == {Unset, EnvSet(<<"true">>), EnvSet(<<"false">>)}
AllowedInputs ==
  {Unset} \cup {EnvSet(s) : s \in SeqsUpTo({"kubectl_get", "kubectl_logs", ",", " "},
                                          MaxAllowedLen)}

\* the server has started: the filter variables are whatever the operator set
InitServer ==
  /\ pc = "idle"
  /\ req = NoRequest
  /\ sel = <<>>
  /\ caller = "top"
  /\ jobs = <<>>
  /\ jobIdx = 0
  /\ allJobLogs = <<>>
  /\ pods = <<>>
  /\ podIdx = 0
  /\ logsMap = <<>>
  /\ pending = NoResult
  /\ calls = <<>>
  /\ errlog = <<>>
  /\ response = NoResponse
  /\ cin = [status |-> NoStatus, message |-> <<>>, description |-> <<>>]
  /\ cout = NoResult
  /\ prev = NoRun
  /\ parked = NotStarted
  /\ env \in [ALLOWED_TOOLS : AllowedInputs, ALLOW_ONLY_READONLY_TOOLS : FlagInputs,
              ALLOW_ONLY_NON_DESTRUCTIVE_TOOLS : FlagInputs]
  /\ reply = NoReply

\* the ListTools handler
ListTools ==
  /\ pc = "idle"
  /\ reply' = [kind |-> "tools", tools |-> Names(Advertised)]
  /\ pc' = "done"
  /\ UNCHANGED <<env, parked, prev, req, sel, caller, jobs, jobIdx, allJobLogs, pods, podIdx,
                 logsMap, pending, calls, errlog, response, cin, cout>>

\* errors: an McpError with its code, or an Error of another class
McpError(code, message) == [class |-> "McpError", code |-> code, message |-> message]
PlainError(class, message) == [class |-> class, code |-> "", message |-> message]
NoneRaised == [class |-> "none", code |-> "", message |-> <<>>]

\* `${error}`: Error.prototype.toString
ErrorToString(error) == <<error.class, ": ">> \o error.message

\* what a tool's function did: returned, or threw
ToolReturned == [kind |-> "return"]
ToolThrew(error) == [kind |-> "throw", error |-> error]

\* the names the CallTool handler dispatches on
Dispatched ==
  {"kubectl_context", "kubectl_get", "kubectl_describe", "kubectl_apply", "kubectl_delete",
   "kubectl_create", "kubectl_logs", "kubectl_patch", "kubectl_rollout", "kubectl_generic",
   "kubectl_events", "cleanup", "explain_resource", "install_helm_chart",
   "uninstall_helm_chart", "upgrade_helm_chart", "list_api_resources", "port_forward",
   "stop_port_forward", "kubectl_scale", "ping", "exec_in_pod"}

\* request.params.name
CallNames == Dispatched \cup {"kubectl_top"}

\* request.params.arguments of a kubectl_logs call: {} when the request has
\* none, so that input.resourceType is undefined
NoArguments == [resourceType |-> Undefined, labelSelector |-> <<>>]
LogsArguments ==
  {NoArguments} \cup {[resourceType |-> Text(<<rt>>), labelSelector |-> ls] :
                        rt \in {"pod", "service"}, ls \in LabelSelectorInputs}
ArgumentsOf(name) == IF name = "kubectl_logs" THEN LogsArguments ELSE {NoArguments}

\* what a tool's function raises; the tools of kubectl-operations.ts throw
\* an Error, those of kubectl-get.ts and kubectl-context.ts an McpError
FailureMessage == <<"Command failed: kubectl">>
RaisedBy(name) ==
  IF name = "kubectl_logs" THEN {NoneRaised}
  ELSE IF name \in {"explain_resource", "list_api_resources"}
  THEN {NoneRaised, PlainError("Error", FailureMessage)}
  ELSE IF name \in {"kubectl_get", "kubectl_events", "kubectl_context"}
  THEN {NoneRaised, McpError("InternalError", FailureMessage)}
  ELSE IF name = "kubectl_scale" THEN {NoneRaised}
  ELSE {NoneRaised, PlainError("Error", FailureMessage), McpError("InternalError", FailureMessage)}

\* kubectlLogs before its first external call: what the try block raises
RaisedInLogs(input) ==
  IF input.resourceType.t = "undefined"
  THEN PlainError("TypeError", <<"Cannot read properties of undefined (reading 'toLowerCase')">>)
  ELSE LET resourceType == ToLowerCase(input.resourceType.s[1])
       IN IF resourceType \notin SupportedKinds /\ input.labelSelector = <<>>
          THEN McpError("InvalidRequest", <<"Unsupported resource type: ", resourceType>>)
          ELSE NoneRaised

\* variant: the catch wraps every error, an McpError too
kubectlLogsCatchWrapAll(error) ==
  McpError("InternalError", <<"Failed to get logs: ">> \o error.message)

\* kubectlLogs: the catch around the whole function
kubectlLogsCatch(error) ==
  IF error.class = "McpError" THEN error
  ELSE McpError("InternalError", <<"Failed to get logs: ">> \o error.message)

\* the CallTool handler: its catch
CallToolCatch(error) ==
  IF error.class = "McpError" THEN error
  ELSE McpError("InternalError", <<"Tool execution failed: ">> \o ErrorToString(error))

\* the CallTool handler: the dispatch on the name, the tool's function and
\* the catch
CallTool(name, input, thrown) ==
  /\ pc = "idle"
  /\ LET known == name \in Dispatched
         raised == IF ~known THEN McpError("InvalidRequest", <<"Unknown tool: ", name>>)
                   ELSE IF name = "kubectl_logs" THEN RaisedInLogs(input)
                   ELSE thrown
         escaped == IF known /\ name = "kubectl_logs" /\ raised # NoneRaised
                    THEN kubectlLogsCatch(raised)
                    ELSE raised
     IN reply' = [kind |-> "call", name |-> name, executed |-> known, raised |-> raised,
                  outcome |-> IF escaped = NoneRaised THEN ToolReturned
                              ELSE ToolThrew(CallToolCatch(escaped))]
  /\ pc' = "done"
  /\ UNCHANGED <<env, parked, prev, req, sel, caller, jobs, jobIdx, allJobLogs, pods, podIdx,
                 logsMap, pending, calls, errlog, response, cin, cout>>

NextServer ==
  \/ ListTools
  \/ \E name \in CallNames : \E input \in ArgumentsOf(name), thrown \in RaisedBy(name) :
       CallTool(name, input, thrown)

SpecServer == InitServer /\ [][NextServer]_vars

----------------------------------------------------------------------------
(* The tool filters *)

\* a filter is set
Filtered == Truthy(allowedToolsEnv) \/ allowOnlyReadonlyTools \/ nonDestructiveTools

\* C24 as stated: whatever the filters are, the handler executes a called
\* tool exactly when the tool list advertises its name
C24_ExecutedIffAdvertised ==
  reply.kind = "call" => (reply.executed <=> reply.name \in NameSet(Advertised))

\* the part that holds: what the tool list advertises is executed when
\* called, whatever the filters are
C24_AdvertisedIsExecuted ==
  reply.kind = "call" => (reply.name \in NameSet(Advertised) => reply.executed)

\* in read-only mode kubectl_scale is not advertised, and a call of it has
\* been executed
C24_FilteredToolExecuted ==
  /\ allowOnlyReadonlyTools
  /\ ~Truthy(allowedToolsEnv)
  /\ reply.kind = "call"
  /\ reply.name = "kubectl_scale"
  /\ reply.executed
  /\ "kubectl_scale" \notin NameSet(Advertised)

\* without any filter kubectl_events has been executed, and the tool list
\* does not advertise it
C24_UnadvertisedToolExecuted ==
  /\ ~Filtered
  /\ reply.kind = "call"
  /\ reply.name = "kubectl_events"
  /\ reply.executed
  /\ "kubectl_events" \notin NameSet(Advertised)

----------------------------------------------------------------------------
(* The errors a tool call ends with *)

\* C25: a tool call that ends with an error ends with an McpError. An
\* McpError raised inside (InvalidRequest for an unsupported resource type,
\* or for an unknown tool) reaches the caller unchanged; any other error
\* raised inside kubectlLogs reaches it as InternalError "Failed to get
\* logs: <message>", and any other error of another tool as InternalError
\* "Tool execution failed: <error>"
C25_OnlyMcpErrorEscapes ==
  reply.kind = "call" =>
    /\ (reply.outcome.kind = "throw") = (reply.raised # NoneRaised)
    /\ reply.outcome.kind = "throw" =>
         LET error == reply.outcome.error
             raised == reply.raised
         IN /\ error.class = "McpError"
            /\ raised.class = "McpError" => error = raised
            /\ raised.class # "McpError" =>
                 /\ error.code = "InternalError"
                 /\ error.message =
                      IF reply.name = "kubectl_logs"
                      THEN <<"Failed to get logs: ">> \o raised.message
                      ELSE <<"Tool execution failed: ">> \o ErrorToString(raised)

\* a kubectl_logs call without arguments: the TypeError of
\* input.resourceType.toLowerCase() came out as an InternalError
C25_Witness ==
  /\ reply.kind = "call"
  /\ reply.name = "kubectl_logs"
  /\ reply.raised.class = "TypeError"
  /\ reply.outcome =
       ToolThrew(McpError("InternalError",
                          <<"Failed to get logs: ">> \o reply.raised.message))

\* a kubectl_logs call for a service without labelSelector: the
\* InvalidRequest came out as raised
C25_RethrownWitness ==
  /\ reply.kind = "call"
  /\ reply.name = "kubectl_logs"
  /\ reply.outcome =
       ToolThrew(McpError("InvalidRequest", <<"Unsupported resource type: ", "service">>))

\* explain_resource threw an Error and the handler wrapped it
C25_HandlerWrapWitness ==
  /\ reply.kind = "call"
  /\ reply.name = "explain_resource"
  /\ reply.raised.class = "Error"
  /\ reply.outcome.kind = "throw"
  /\ reply.outcome.error.code = "InternalError"
====
